---- MODULE Spec2Model ----
(***************************************************************************)
(* The search engine of grid-game-engine: backtrackingSolver,              *)
(* randomBacktrackingSolver and solutionChecker (src/src/Solver.ts),       *)
(* running on a Board of Cells (src/src/GridEngine.ts) laid out by         *)
(* RectangularTopology, against the rule sets of the repository.           *)
(*                                                                         *)
(* A board is the sequence of its cells' values in board.cells order; the  *)
(* cell at index i (1-based) has x = (i-1) % width, y = (i-1) \div width.  *)
(* The recursion of solveRecursive is an explicit stack of frames, one     *)
(* step of a frame per action.                                             *)
(***************************************************************************)
EXTENDS Integers, Sequences, FiniteSets

\* ---- bounds of the model ----
\* boards are at most MaxWidth wide and MaxHeight high
MaxWidth == 3
MaxHeight == 3
\* and have at most MaxCells cells (width * height <= MaxCells)
MaxCells == 4
\* pre-set cell values lie in 1..MaxVal, maxValue arguments in -1..MaxVal
MaxVal == 2

\* ---- values ----
\* Cell.value === null
Null == 0
\* Array.prototype.find returning undefined (no cell found)
NoCell == 0

VARIABLES
    width,          \* Board.width
    height,         \* Board.height
    initial,        \* the cells' values when the procedure was called
    board,          \* the cells' values now (board.cells[i].value)
    proc,           \* the procedure called
    ruleSet,        \* the RuleSet passed
    maxValue,       \* the maxValue argument: <<>> when omitted, <<n>> when given
    stack,          \* active solveRecursive frames, innermost last
    ret,            \* value being returned by the frame just popped: <<>> or <<b>>
    solutionCount,  \* solutionChecker's counter
    status,         \* "ready" | "running" | "done" | "fault"
    result,         \* what the procedure returned
    queries,        \* number of ruleSet.validateMove calls made so far
    written,        \* per cell: the write that set its current value, if the search made it
    cells,          \* board.cells as the Board constructor got them from the topology
    lookup,         \* the last getCell / getNeighbors call and what it returned
    carve           \* carveBoard's locals: its position, i, voids and its last check

vars == <<width, height, initial, board, proc, ruleSet, maxValue, stack, ret,
          solutionCount, status, result, queries, written, cells, lookup, carve>>

Procs == {"backtrackingSolver", "randomBacktrackingSolver", "solutionChecker"}
Solvers == {"backtrackingSolver", "randomBacktrackingSolver"}
RuleSets == {"RuleSet", "RowRuleSet", "SudokuRuleSet"}

\* ---- Board / Cell / Topology ----
Cells(b) == 1..Len(b)
CellX(i, w) == (i - 1) % w
CellY(i, w) == (i - 1) \div w
\* assignRegions: Math.floor(x / 3) + Math.floor(y / 3) * 3
Region(i, w) == (CellX(i, w) \div 3) + (CellY(i, w) \div 3) * 3

\* new Cell(x, y): the value defaults to null
Cell(x, y) == [x |-> x, y |-> y, value |-> Null]

\* (variant) the loops are nested the other way round: x outside, y inside
RECURSIVE ColumnOfCells(_, _, _)
ColumnOfCells(h, x, y) ==
    IF y < h THEN <<Cell(x, y)>> \o ColumnOfCells(h, x, y + 1) ELSE <<>>

RECURSIVE ColumnsOfCells(_, _, _)
ColumnsOfCells(w, h, x) ==
    IF x < w THEN ColumnOfCells(h, x, 0) \o ColumnsOfCells(w, h, x + 1) ELSE <<>>

initializeCellsColumnMajor(w, h) == ColumnsOfCells(w, h, 0)

\* RectangularTopology.initializeCells: the inner loop, for (x = 0; x < width; x++)
RECURSIVE RowOfCells(_, _, _)
RowOfCells(w, y, x) ==
    IF x < w THEN <<Cell(x, y)>> \o RowOfCells(w, y, x + 1) ELSE <<>>

\* the outer loop, for (y = 0; y < height; y++)
RECURSIVE RowsOfCells(_, _, _)
RowsOfCells(w, h, y) ==
    IF y < h THEN RowOfCells(w, y, 0) \o RowsOfCells(w, h, y + 1) ELSE <<>>

initializeCells(w, h) == RowsOfCells(w, h, 0)

\* Array.prototype.find: the first element satisfying the test, as <<cell>>,
\* or <<>> for undefined
FindAt(cs, x, y) ==
    LET S == { i \in 1..Len(cs) : cs[i].x = x /\ cs[i].y = y }
    IN IF S = {} THEN <<>>
       ELSE <<cs[CHOOSE i \in S : \A j \in S : i <= j]>>

\* Board.getCell: this.cells.find((cell) => cell.x === x && cell.y === y)
getCell(cs, x, y) == FindAt(cs, x, y)

\* (variant) the second direction points diagonally
directionsWithDiagonal ==
    << [dx |-> 0, dy |-> 0 - 1], [dx |-> 1, dy |-> 1],
       [dx |-> 0, dy |-> 1], [dx |-> 0 - 1, dy |-> 0] >>

\* RectangularTopology.getNeighbors: up, right, down, left
directions ==
    << [dx |-> 0, dy |-> 0 - 1], [dx |-> 1, dy |-> 0],
       [dx |-> 0, dy |-> 1], [dx |-> 0 - 1, dy |-> 0] >>

\* for (const { dx, dy } of directions) { const neighbor = cells.find(...);
\*     if (neighbor) neighbors.push(neighbor); }
RECURSIVE NeighborsFrom(_, _, _)
NeighborsFrom(cell, cs, k) ==
    IF k > Len(directions) THEN <<>>
    ELSE FindAt(cs, cell.x + directions[k].dx, cell.y + directions[k].dy)
            \o NeighborsFrom(cell, cs, k + 1)

getNeighbors(cell, cs, w, h) == NeighborsFrom(cell, cs, 1)

\* ---- rule sets ----
\* RuleSet.validateMove (and the tests' DummyRuleSet): always true
BaseValidateMove(b, w, c, v) == TRUE

\* the tests' row-uniqueness rule set: the cells of the row (the cell itself
\* included) must not hold the value
\* (variant) the row rule looks at the cell's column instead of its row
RowValidateMoveByColumn(b, w, c, v) ==
    ~ \E i \in Cells(b) : CellX(i, w) = CellX(c, w) /\ b[i] # Null /\ b[i] = v

RowValidateMove(b, w, c, v) ==
    ~ \E i \in Cells(b) : CellY(i, w) = CellY(c, w) /\ b[i] # Null /\ b[i] = v

\* Games/Sudoku.ts SudokuRuleSet: row, column and region, the cell excluded
SudokuValidateMove(b, w, c, v) ==
    /\ ~ \E i \in Cells(b) : CellY(i, w) = CellY(c, w) /\ i # c /\ b[i] # Null /\ b[i] = v
    /\ ~ \E i \in Cells(b) : CellX(i, w) = CellX(c, w) /\ i # c /\ b[i] # Null /\ b[i] = v
    /\ ~ \E i \in Cells(b) : Region(i, w) = Region(c, w) /\ i # c /\ b[i] # Null /\ b[i] = v

\* SudokuRuleSet on a board on which assignRegions was not run: every
\* cell's metadata.region is undefined, undefined === undefined, and the
\* region of a cell is the whole board
SudokuValidateMoveNoRegions(b, w, c, v) ==
    /\ ~ \E i \in Cells(b) : CellY(i, w) = CellY(c, w) /\ i # c /\ b[i] # Null /\ b[i] = v
    /\ ~ \E i \in Cells(b) : CellX(i, w) = CellX(c, w) /\ i # c /\ b[i] # Null /\ b[i] = v
    /\ ~ \E i \in Cells(b) : i # c /\ b[i] # Null /\ b[i] = v

validateMove(rs, b, w, c, v) ==
    CASE rs = "RuleSet" -> BaseValidateMove(b, w, c, v)
      [] rs = "RowRuleSet" -> RowValidateMove(b, w, c, v)
      [] rs = "SudokuRuleSet" -> SudokuValidateMove(b, w, c, v)
      [] rs = "SudokuRuleSetNoRegions" -> SudokuValidateMoveNoRegions(b, w, c, v)

\* RuleSet.checkWin (and the tests' DummyRuleSet): no cell is null
BaseCheckWin(b, w, h) == \A i \in Cells(b) : b[i] # Null

\* the tests' row-uniqueness rule set: no cell is null and the values of each
\* cell's row are as many as the cells of the row
RowCheckWin(b, w, h) ==
    \A c \in Cells(b) :
        /\ b[c] # Null
        /\ LET row == { i \in Cells(b) : CellY(i, w) = CellY(c, w) }
           IN Cardinality({ b[i] : i \in row }) = Cardinality(row)

\* Games/Sudoku.ts SudokuRuleSet.checkWin: no cell is null and every row,
\* every column and each of the regions 0..8 holds 9 different values
SudokuCheckWin(b, w, h) ==
    /\ \A i \in Cells(b) : b[i] # Null
    /\ \A y \in 0..(h - 1) :
          Cardinality({ b[i] : i \in { j \in Cells(b) : CellY(j, w) = y } }) = 9
    /\ \A x \in 0..(w - 1) :
          Cardinality({ b[i] : i \in { j \in Cells(b) : CellX(j, w) = x } }) = 9
    /\ \A r \in 0..8 :
          Cardinality({ b[i] : i \in { j \in Cells(b) : Region(j, w) = r } }) = 9

checkWin(rs, b, w, h) ==
    CASE rs = "RuleSet" -> BaseCheckWin(b, w, h)
      [] rs = "RowRuleSet" -> RowCheckWin(b, w, h)
      [] rs = "SudokuRuleSet" -> SudokuCheckWin(b, w, h)

\* ---- Solver.ts ----
\* (variant) the maxValue argument is ignored: max is always the slot count
maxIgnoresArg(mv, b) == Len(b)

\* const max = maxValue || board.cells.length  (undefined and 0 are falsy)
max(mv, b) == IF mv # <<>> /\ mv[1] # 0 THEN mv[1] ELSE Len(b)

\* (variant) the scan returns the last cell whenever some cell is unassigned
emptyCellLast(b) ==
    IF \E i \in Cells(b) : b[i] = Null THEN Len(b) ELSE NoCell

\* (variant) the scan for an unassigned cell stops one cell short of the end
emptyCellSkipsLast(b) ==
    IF \E i \in 1..(Len(b) - 1) : b[i] = Null
    THEN CHOOSE i \in 1..(Len(b) - 1) : b[i] = Null /\ \A j \in 1..(i - 1) : b[j] # Null
    ELSE NoCell

\* board.cells.find((c) => c.value === null)
emptyCell(b) ==
    IF \E i \in Cells(b) : b[i] = Null
    THEN CHOOSE i \in Cells(b) : b[i] = Null /\ \A j \in 1..(i - 1) : b[j] # Null
    ELSE NoCell

\* (variant) the candidates stop one short of max (val < max for val <= max)
cellValuesShort(m) == 1..(m - 1)

\* Array.from({ length: max }, (_, i) => i + 1), as the set of its elements
\* (a negative length gives the empty array)
cellValues(m) == 1..m

\* (variant) the loop runs from max down to 1
MaxOf(S) == CHOOSE x \in S : \A y \in S : x >= y

Min(S) == CHOOSE x \in S : \A y \in S : x <= y

\* (variant) the shuffle has no effect: every procedure iterates ascending
nextValuesAscending(p, rest) == {Min(rest)}

\* (variant) the ascending loops iterate from the far end
nextValuesLast(p, rest) ==
    IF p = "randomBacktrackingSolver" THEN rest ELSE {MaxOf(rest)}

\* The candidates a frame may take next out of those it has not iterated yet:
\* the smallest for the ascending loops; any of them for the shuffled array
\* (values.sort(() => Math.random() - 0.5) can leave any permutation).
nextValues(p, rest) ==
    IF p = "randomBacktrackingSolver" THEN rest ELSE {Min(rest)}

Frame(pc, cell, rest) == [pc |-> pc, cell |-> cell, rest |-> rest]
Top == stack[Len(stack)]
Pop == SubSeq(stack, 1, Len(stack) - 1)
SetTop(f) == [stack EXCEPT ![Len(stack)] = f]

NoResult == [solved |-> FALSE, solutionFound |-> FALSE, multipleSolutions |-> FALSE]

NoLookup == [op |-> "none", x |-> 0, y |-> 0, result |-> <<>>]

\* carveBoard has not been called
NoCarve == [pc |-> "idle", i |-> 0, voids |-> <<>>, calls |-> 0,
            newCells |-> <<>>, checked |-> <<>>, result |-> NoResult]

Init ==
    /\ width \in 1..MaxWidth
    /\ height \in 1..MaxHeight
    /\ width * height <= MaxCells
    /\ cells = initializeCells(width, height)
    /\ lookup = NoLookup
    /\ carve = NoCarve
    /\ board \in [1..Len(cells) -> 0..MaxVal]
    /\ initial = board
    /\ proc = "none"
    /\ ruleSet = "RuleSet"
    /\ maxValue = <<>>
    /\ stack = <<>>
    /\ ret = <<>>
    /\ solutionCount = 0
    /\ status = "ready"
    /\ result = NoResult
    /\ queries = 0
    /\ written = [i \in Cells(board) |-> <<>>]

\* A call of one of the three procedures: the arguments are bound and the
\* first solveRecursive frame is entered.
Call(p, rs, mv) ==
    /\ status = "ready"
    /\ proc' = p
    /\ ruleSet' = rs
    /\ maxValue' = mv
    /\ status' = "running"
    /\ stack' = <<Frame("entry", NoCell, {})>>
    /\ UNCHANGED <<carve, cells, lookup, width, height, initial, board, ret, solutionCount, result,
                   queries, written>>

MaxValueArgs == {<<>>} \cup { <<n>> : n \in (0 - 1)..MaxVal }

backtrackingSolver ==
    \E rs \in RuleSets, mv \in MaxValueArgs : Call("backtrackingSolver", rs, mv)

randomBacktrackingSolver ==
    \E rs \in RuleSets, mv \in MaxValueArgs : Call("randomBacktrackingSolver", rs, mv)

solutionChecker ==
    \E rs \in RuleSets, mv \in MaxValueArgs : Call("solutionChecker", rs, mv)

\* (variant) a complete board is reported as a failed branch and not counted
CompleteAsFailure ==
    /\ status = "running"
    /\ stack # <<>>
    /\ Top.pc = "entry"
    /\ emptyCell(board) = NoCell
    /\ stack' = Pop
    /\ ret' = <<FALSE>>
    /\ UNCHANGED <<carve, cells, lookup, width, height, initial, board, proc, ruleSet, maxValue,
                   solutionCount, status, result, queries, written>>

\* (variant) a complete board counts as a success only if checkWin accepts it
CompleteChecksWin ==
    /\ status = "running"
    /\ stack # <<>>
    /\ Top.pc = "entry"
    /\ emptyCell(board) = NoCell
    /\ stack' = Pop
    /\ IF proc = "solutionChecker"
       THEN /\ solutionCount' = solutionCount + 1
            /\ ret' = <<solutionCount + 1 >= 2>>
       ELSE /\ solutionCount' = solutionCount
            /\ ret' = <<checkWin(ruleSet, board, width, height)>>
    /\ UNCHANGED <<carve, cells, lookup, width, height, initial, board, proc, ruleSet, maxValue,
                   status, result, queries, written>>

\* if (!emptyCell) return true            (the two solvers)
\* if (!emptyCell) { solutionCount++; return solutionCount >= 2; }  (the checker)
Complete ==
    /\ status = "running"
    /\ stack # <<>>
    /\ Top.pc = "entry"
    /\ emptyCell(board) = NoCell
    /\ stack' = Pop
    /\ IF proc = "solutionChecker"
       THEN /\ solutionCount' = solutionCount + 1
            /\ ret' = <<solutionCount + 1 >= 2>>
       ELSE /\ solutionCount' = solutionCount
            /\ ret' = <<TRUE>>
    /\ UNCHANGED <<carve, cells, lookup, width, height, initial, board, proc, ruleSet, maxValue,
                   status, result, queries, written>>

\* const emptyCell = board.cells.find(...); the frame's candidates are 1..max
SelectCell ==
    /\ status = "running"
    /\ stack # <<>>
    /\ Top.pc = "entry"
    /\ emptyCell(board) # NoCell
    /\ stack' = SetTop(Frame("loop", emptyCell(board), cellValues(max(maxValue, board))))
    /\ UNCHANGED <<carve, cells, lookup, width, height, initial, board, proc, ruleSet, maxValue, ret,
                   solutionCount, status, result, queries, written>>

\* (variant) the recursive call is made without assigning the accepted value
TryValueNoAssign ==
    /\ status = "running"
    /\ stack # <<>>
    /\ Top.pc = "loop"
    /\ Top.rest # {}
    /\ \E v \in nextValues(proc, Top.rest) :
          LET c == Top.cell
              ok == validateMove(ruleSet, board, width, c, v)
          IN /\ queries' = queries + 1
             /\ IF ok
                THEN stack' = Append(SetTop(Frame("called", c, Top.rest \ {v})),
                                     Frame("entry", NoCell, {}))
                ELSE stack' = SetTop(Frame("loop", c, Top.rest \ {v}))
    /\ UNCHANGED <<carve, cells, lookup, width, height, initial, board, written, proc, ruleSet, maxValue, ret,
                   solutionCount, status, result>>

\* (variant) the assignment and the recursion are not guarded by validateMove
TryValueUnchecked ==
    /\ status = "running"
    /\ stack # <<>>
    /\ Top.pc = "loop"
    /\ Top.rest # {}
    /\ \E v \in nextValues(proc, Top.rest) :
          LET c == Top.cell
              ok == validateMove(ruleSet, board, width, c, v)
          IN /\ queries' = queries + 1
             /\ board' = [board EXCEPT ![c] = v]
             /\ written' = [written EXCEPT
                              ![c] = <<[board |-> board, val |-> v, valid |-> ok]>>]
             /\ stack' = Append(SetTop(Frame("called", c, Top.rest \ {v})),
                                Frame("entry", NoCell, {}))
    /\ UNCHANGED <<carve, cells, lookup, width, height, initial, proc, ruleSet, maxValue, ret,
                   solutionCount, status, result>>

\* one iteration of the loop over the candidates:
\*   if (ruleSet.validateMove(board, emptyCell, val)) {
\*       emptyCell.value = val; solveRecursive() ...
TryValue ==
    /\ status = "running"
    /\ stack # <<>>
    /\ Top.pc = "loop"
    /\ Top.rest # {}
    /\ \E v \in nextValues(proc, Top.rest) :
          LET c == Top.cell
              ok == validateMove(ruleSet, board, width, c, v)
          IN /\ queries' = queries + 1
             /\ IF ok
                THEN /\ board' = [board EXCEPT ![c] = v]
                     /\ written' = [written EXCEPT
                                      ![c] = <<[board |-> board, val |-> v, valid |-> ok]>>]
                     /\ stack' = Append(SetTop(Frame("called", c, Top.rest \ {v})),
                                        Frame("entry", NoCell, {}))
                ELSE /\ stack' = SetTop(Frame("loop", c, Top.rest \ {v}))
                     /\ UNCHANGED <<board, written>>
    /\ UNCHANGED <<carve, cells, lookup, width, height, initial, proc, ruleSet, maxValue, ret,
                   solutionCount, status, result>>

\* the loop ran out of candidates: return false
Exhausted ==
    /\ status = "running"
    /\ stack # <<>>
    /\ Top.pc = "loop"
    /\ Top.rest = {}
    /\ stack' = Pop
    /\ ret' = <<FALSE>>
    /\ UNCHANGED <<carve, cells, lookup, width, height, initial, board, proc, ruleSet, maxValue,
                   solutionCount, status, result, queries, written>>

\* (variant) the value returned by the recursive call is ignored: the frame
\* backtracks and goes on with its next candidate
ReturnTrueIgnored ==
    /\ status = "running"
    /\ stack # <<>>
    /\ Top.pc = "called"
    /\ ret = <<TRUE>>
    /\ board' = [board EXCEPT ![Top.cell] = Null]
    /\ written' = [written EXCEPT ![Top.cell] = <<>>]
    /\ stack' = SetTop(Frame("loop", Top.cell, Top.rest))
    /\ ret' = <<>>
    /\ UNCHANGED <<carve, cells, lookup, width, height, initial, proc, ruleSet, maxValue,
                   solutionCount, status, result, queries>>

\* if (solveRecursive()) return true;
ReturnTrue ==
    /\ status = "running"
    /\ stack # <<>>
    /\ Top.pc = "called"
    /\ ret = <<TRUE>>
    /\ stack' = Pop
    /\ UNCHANGED <<carve, cells, lookup, width, height, initial, board, proc, ruleSet, maxValue, ret,
                   solutionCount, status, result, queries, written>>

\* (variant) the failed candidate is not reset before the next one is tried
BacktrackNoUndo ==
    /\ status = "running"
    /\ stack # <<>>
    /\ Top.pc = "called"
    /\ ret = <<FALSE>>
    /\ stack' = SetTop(Frame("loop", Top.cell, Top.rest))
    /\ ret' = <<>>
    /\ UNCHANGED <<carve, cells, lookup, width, height, initial, board, proc, ruleSet, maxValue,
                   solutionCount, status, result, queries, written>>

\* the recursive call returned false: emptyCell.value = null, next candidate
Backtrack ==
    /\ status = "running"
    /\ stack # <<>>
    /\ Top.pc = "called"
    /\ ret = <<FALSE>>
    /\ board' = [board EXCEPT ![Top.cell] = Null]
    /\ written' = [written EXCEPT ![Top.cell] = <<>>]
    /\ stack' = SetTop(Frame("loop", Top.cell, Top.rest))
    /\ ret' = <<>>
    /\ UNCHANGED <<carve, cells, lookup, width, height, initial, proc, ruleSet, maxValue,
                   solutionCount, status, result, queries>>

\* (variant) multipleSolutions compares with the wrong threshold
SolverResultOffByOne(n) ==
    [solved |-> FALSE, solutionFound |-> n > 0, multipleSolutions |-> n > 0]

\* { solutionFound: solutionCount > 0, multipleSolutions: solutionCount > 1 }
SolverResult(n) ==
    [solved |-> FALSE, solutionFound |-> n > 0, multipleSolutions |-> n > 1]

\* the outermost solveRecursive returned: the procedure returns
Return ==
    /\ status = "running"
    /\ stack = <<>>
    /\ ret # <<>>
    /\ status' = "done"
    /\ result' = IF proc = "solutionChecker"
                 THEN SolverResult(solutionCount)
                 ELSE [NoResult EXCEPT !.solved = ret[1]]
    /\ ret' = <<>>
    /\ UNCHANGED <<carve, cells, lookup, width, height, initial, board, proc, ruleSet, maxValue, stack,
                   solutionCount, queries, written>>

Next ==
    \/ backtrackingSolver
    \/ randomBacktrackingSolver
    \/ solutionChecker
    \/ Complete
    \/ SelectCell
    \/ TryValue
    \/ Exhausted
    \/ ReturnTrue
    \/ Backtrack
    \/ Return

Spec == Init /\ [][Next]_vars

\* ---- the procedures as functions of their arguments ----
RECURSIVE solveRecursive(_, _, _, _), solveLoop(_, _, _, _, _)

\* backtrackingSolver's solveRecursive on board b with candidates 1..m:
\* the boolean it returns
solveRecursive(b, rs, w, m) ==
    IF emptyCell(b) = NoCell
    THEN TRUE
    ELSE solveLoop(b, rs, w, m, 1)

\* its loop over the candidates, from candidate v on
solveLoop(b, rs, w, m, v) ==
    IF v \notin cellValues(m)
    THEN FALSE
    ELSE IF /\ validateMove(rs, b, w, emptyCell(b), v)
            /\ solveRecursive([b EXCEPT ![emptyCell(b)] = v], rs, w, m)
         THEN TRUE
         ELSE solveLoop(b, rs, w, m, v + 1)

\* what backtrackingSolver(board, ruleSet, maxValue) returns
backtrackingSolverReturns(b, rs, w, mv) == solveRecursive(b, rs, w, max(mv, b))

RECURSIVE countRecursive(_, _, _, _, _), countLoop(_, _, _, _, _, _)

\* solutionChecker's solveRecursive on board b when solutionCount is n: the
\* boolean it returns (stop) and solutionCount afterwards
countRecursive(b, rs, w, m, n) ==
    IF emptyCell(b) = NoCell
    THEN [stop |-> n + 1 >= 2, count |-> n + 1]
    ELSE countLoop(b, rs, w, m, n, 1)

\* its loop over the candidates, from candidate v on
countLoop(b, rs, w, m, n, v) ==
    IF v \notin cellValues(m)
    THEN [stop |-> FALSE, count |-> n]
    ELSE IF validateMove(rs, b, w, emptyCell(b), v)
         THEN LET r == countRecursive([b EXCEPT ![emptyCell(b)] = v], rs, w, m, n)
              IN IF r.stop THEN r ELSE countLoop(b, rs, w, m, r.count, v + 1)
         ELSE countLoop(b, rs, w, m, n, v + 1)

\* what solutionChecker(board, ruleSet, maxValue) returns
solutionCheckerReturns(b, rs, w, mv) ==
    SolverResult(countRecursive(b, rs, w, max(mv, b), 0).count)

\* The procedures are synchronous and single-threaded: a call, once made,
\* keeps taking steps until it returns.
FairSpec == Spec /\ WF_vars(Next)

\* ---- the board and its topology on their own ----
\* new Board(new RectangularTopology(), width, height): the cells come from
\* the topology and nothing has been assigned yet
BoardInit ==
    /\ width \in 0..MaxWidth
    /\ height \in 0..MaxHeight
    /\ cells = initializeCells(width, height)
    /\ lookup = NoLookup
    /\ carve = NoCarve
    /\ board = [i \in 1..Len(cells) |-> cells[i].value]
    /\ initial = board
    /\ proc = "none"
    /\ ruleSet = "RuleSet"
    /\ maxValue = <<>>
    /\ stack = <<>>
    /\ ret = <<>>
    /\ solutionCount = 0
    /\ status = "ready"
    /\ result = NoResult
    /\ queries = 0
    /\ written = [i \in Cells(board) |-> <<>>]

\* board.getCell(x, y), for coordinates on the board and around it
BoardGetCell ==
    \E x \in (0 - 1)..width, y \in (0 - 1)..height :
        /\ lookup' = [op |-> "getCell", x |-> x, y |-> y, result |-> getCell(cells, x, y)]
        /\ UNCHANGED <<carve, cells, width, height, initial, board, proc, ruleSet, maxValue,
                       stack, ret, solutionCount, status, result, queries, written>>

\* topology.getNeighbors(cell, board.cells, width, height) for a cell of the board
TopologyGetNeighbors ==
    \E i \in 1..Len(cells) :
        /\ lookup' = [op |-> "getNeighbors", x |-> cells[i].x, y |-> cells[i].y,
                      result |-> getNeighbors(cells[i], cells, width, height)]
        /\ UNCHANGED <<carve, cells, width, height, initial, board, proc, ruleSet, maxValue,
                       stack, ret, solutionCount, status, result, queries, written>>

BoardNext == BoardGetCell \/ TopologyGetNeighbors

BoardSpec == BoardInit /\ [][BoardNext]_vars

\* ---- the integration scenario of the test suite ----
\* new Board(topology, 3, 3)
ScenarioSide == 3

\* the board of the integration test: 3 x 3, the three cells of the first
\* row pre-set, the others left unassigned
ScenarioInit ==
    /\ width = ScenarioSide
    /\ height = ScenarioSide
    /\ cells = initializeCells(width, height)
    /\ lookup = NoLookup
    /\ carve = NoCarve
    /\ \E first \in [1..ScenarioSide -> 1..ScenarioSide] :
          board = [i \in 1..Len(cells) |-> IF i <= ScenarioSide THEN first[i] ELSE Null]
    /\ initial = board
    /\ proc = "none"
    /\ ruleSet = "RuleSet"
    /\ maxValue = <<>>
    /\ stack = <<>>
    /\ ret = <<>>
    /\ solutionCount = 0
    /\ status = "ready"
    /\ result = NoResult
    /\ queries = 0
    /\ written = [i \in Cells(board) |-> <<>>]

\* one call of backtrackingSolver on that board, run to its return
ScenarioNext ==
    \/ backtrackingSolver
    \/ Complete
    \/ SelectCell
    \/ TryValue
    \/ Exhausted
    \/ ReturnTrue
    \/ Backtrack
    \/ Return

ScenarioSpec == ScenarioInit /\ [][ScenarioNext]_vars

\* ---- Games/Sudoku.ts: carveBoard ----
\* solutionChecker(..., sudokuRules, 9)
SudokuMax == 9

\* new Board(topology, w, h, options) with RectangularTopology: the cells are
\* those of initializeCells(w, h), which does not read options; their values
NewBoard(w, h, options) ==
    [k \in 1..Len(initializeCells(w, h)) |-> initializeCells(w, h)[k].value]

\* the rule set as it acts on the board built in carveBoard: new Cell(x, y)
\* has metadata = {} and assignRegions is not run on that board
CheckedRuleSet == "SudokuRuleSetNoRegions"

\* a board given to carveBoard
CarveInit ==
    /\ width \in 1..MaxWidth
    /\ height \in 1..MaxHeight
    /\ width * height <= MaxCells
    /\ cells = initializeCells(width, height)
    /\ lookup = NoLookup
    /\ carve = NoCarve
    /\ board \in [1..Len(cells) -> 0..MaxVal]
    /\ initial = board
    /\ proc = "none"
    /\ ruleSet = "RuleSet"
    /\ maxValue = <<>>
    /\ stack = <<>>
    /\ ret = <<>>
    /\ solutionCount = 0
    /\ status = "ready"
    /\ result = NoResult
    /\ queries = 0
    /\ written = [i \in Cells(board) |-> <<>>]

\* carveBoard(board) is called: const voids = []; let i = 0
carveBoard ==
    /\ carve.pc = "idle"
    /\ carve' = [carve EXCEPT !.pc = "loop", !.i = 0, !.voids = <<>>]
    /\ UNCHANGED <<cells, lookup, width, height, initial, board, proc, ruleSet, maxValue,
                   stack, ret, solutionCount, status, result, queries, written>>

\* one iteration of the loop (i is the 0-based index of the code):
\*   newCells = board.cells.map(...) with cell i cleared;
\*   if (solutionChecker(new Board(..., { cells: newCells }), sudokuRules, 9)
\*           .multipleSolutions) continue;
\*   voids.push(i)
CarveIteration ==
    /\ carve.pc = "loop"
    /\ carve.i < Len(board)
    /\ LET newCells == [k \in Cells(board) |-> IF k = carve.i + 1 THEN Null ELSE board[k]]
           checked == NewBoard(width, height, newCells)
           res == solutionCheckerReturns(checked, CheckedRuleSet, width, <<SudokuMax>>)
       IN carve' = [carve EXCEPT
                      !.newCells = newCells,
                      !.checked = checked,
                      !.result = res,
                      !.calls = carve.calls + 1,
                      !.voids = IF res.multipleSolutions
                                THEN carve.voids
                                ELSE Append(carve.voids, carve.i),
                      !.i = carve.i + 1]
    /\ UNCHANGED <<cells, lookup, width, height, initial, board, proc, ruleSet, maxValue,
                   stack, ret, solutionCount, status, result, queries, written>>

\* the loop is over: return { board, voids }
CarveReturn ==
    /\ carve.pc = "loop"
    /\ carve.i >= Len(board)
    /\ carve' = [carve EXCEPT !.pc = "done"]
    /\ UNCHANGED <<cells, lookup, width, height, initial, board, proc, ruleSet, maxValue,
                   stack, ret, solutionCount, status, result, queries, written>>

CarveNext == carveBoard \/ CarveIteration \/ CarveReturn

CarveSpec == CarveInit /\ [][CarveNext]_vars

\* ======================= properties =======================

Done == status = "done"
InitiallyEmpty == { i \in Cells(initial) : initial[i] = Null }
AllNull(n) == [i \in 1..n |-> Null]

\* The greatest value of a completion: the maxValue given or, when it is
\* omitted, the number of slots of the board.
DomainMax == IF maxValue = <<>> THEN Len(initial) ELSE maxValue[1]

\* The completions of board b: the full assignments obtained by filling the
\* unassigned slots in board order with values of 1..m, each accepted by
\* validateMove on the board as it stands when the value is placed.
RECURSIVE Completions(_, _, _, _)
Completions(b, rs, w, m) ==
    IF \A i \in Cells(b) : b[i] # Null
    THEN {b}
    ELSE LET c == CHOOSE i \in Cells(b) : b[i] = Null /\ \A j \in 1..(i - 1) : b[j] # Null
         IN UNION { Completions([b EXCEPT ![c] = v], rs, w, m) :
                      v \in { u \in 1..m : validateMove(rs, b, w, c, u) } }

InitialCompletions == Completions(initial, ruleSet, width, DomainMax)

\* C1: when backtrackingSolver or randomBacktrackingSolver returns false,
\* every slot holds the value it held before the call.
C1_RestoreOnFalse ==
    (Done /\ proc \in Solvers /\ ~ result.solved) => board = initial

\* a failed search that had assigned a slot: on an all-unassigned row of two
\* cells with the row rule and maxValue 1 the first cell takes 1, the second
\* has no candidate, and the first is reset
C1_Witness ==
    /\ Done /\ proc = "randomBacktrackingSolver" /\ ~ result.solved
    /\ ruleSet = "RowRuleSet" /\ width = 2 /\ maxValue = <<1>>
    /\ initial = AllNull(2) /\ queries = 2 /\ board = initial

\* C2: after solutionChecker returns, every slot that was unassigned when
\* the call started is unassigned again, whatever the number of solutions.
C2_CheckerRestores ==
    (Done /\ proc = "solutionChecker") =>
        \A i \in InitiallyEmpty : board[i] = Null

\* C3: solutionChecker reports (false, false) when the board has no
\* completion, (true, false) when it has exactly one and (true, true) when it
\* has two or more (maxValue omitted or a non-zero number).
C3_Classification ==
    (Done /\ proc = "solutionChecker" /\ maxValue # <<0>>) =>
        LET n == Cardinality(InitialCompletions)
        IN /\ result.solutionFound = (n >= 1)
           /\ result.multipleSolutions = (n >= 2)

\* a board with unassigned slots and exactly one completion, found after
\* rejected candidates
C3_Witness ==
    /\ Done /\ proc = "solutionChecker" /\ maxValue # <<0>>
    /\ Cardinality(InitiallyEmpty) >= 2
    /\ Cardinality(InitialCompletions) = 1
    /\ result.solutionFound /\ ~ result.multipleSolutions

\* C4: backtrackingSolver returns true exactly when the board has a
\* completion (maxValue omitted or a non-zero number), and it never faults.
C4_TrueIffCompletion ==
    /\ status # "fault"
    /\ (Done /\ proc = "backtrackingSolver" /\ maxValue # <<0>>) =>
          (result.solved <=> InitialCompletions # {})

\* a search over at least two unassigned slots, with candidates to try, that
\* ends in false
C4_Witness ==
    /\ Done /\ proc = "backtrackingSolver" /\ maxValue # <<>> /\ maxValue[1] >= 1
    /\ Cardinality(InitiallyEmpty) >= 2
    /\ InitialCompletions = {}
    /\ ~ result.solved /\ queries >= 2

\* the board as it stood when slot c of the successful path was assigned:
\* the slots assigned before the call and the earlier slots of the path hold
\* their final values, c and the later slots are unassigned
BoardWhenFixed(c) ==
    [i \in Cells(board) |-> IF initial[i] = Null /\ i >= c THEN Null ELSE board[i]]

\* C5: when a solver returns true, every slot it assigned holds a value that
\* validateMove accepted at the moment it was written, on the board as it
\* stood then.
C5_ValidWhenFixed ==
    (Done /\ proc \in Solvers /\ result.solved) =>
        \A c \in InitiallyEmpty :
            /\ written[c] # <<>>
            /\ written[c][1].val = board[c]
            /\ written[c][1].valid
            /\ written[c][1].board = BoardWhenFixed(c)
            /\ validateMove(ruleSet, BoardWhenFixed(c), width, c, board[c])

\* a success of the randomized solver on a board with a pre-set cell and two
\* or more slots to fill, under the Sudoku rules, after a rejected candidate
C5_Witness ==
    /\ Done /\ proc = "randomBacktrackingSolver" /\ result.solved
    /\ ruleSet = "SudokuRuleSet"
    /\ Cardinality(InitiallyEmpty) >= 2
    /\ InitiallyEmpty # Cells(initial)
    /\ queries > Cardinality(InitiallyEmpty)

\* validateMove for slot c and its present value, on the present board with
\* slot c cleared for the query
AcceptedWhenCleared(c) ==
    validateMove(ruleSet, [board EXCEPT ![c] = Null], width, c, board[c])

\* C6 (as stated): when backtrackingSolver returns true, every slot of the
\* final board passes validateMove on the final board with that slot cleared.
C6_EverySlotRevalidates ==
    (Done /\ proc = "backtrackingSolver" /\ result.solved) =>
        \A c \in Cells(board) : AcceptedWhenCleared(c)

\* C6 (amended): under the rule sets of the repository, when backtrackingSolver
\* returns true, every slot that was unassigned when the call started passes
\* validateMove on the final board with that slot cleared.
C6_AssignedSlotsRevalidate ==
    (Done /\ proc = "backtrackingSolver" /\ result.solved) =>
        \A c \in InitiallyEmpty : AcceptedWhenCleared(c)

\* a success under the row rule in which the search filled two or more slots
\* next to a pre-set one, after rejecting a candidate
C6_Witness ==
    /\ Done /\ proc = "backtrackingSolver" /\ result.solved
    /\ ruleSet = "RowRuleSet" /\ width >= 2
    /\ Cardinality(InitiallyEmpty) >= 2
    /\ InitiallyEmpty # Cells(initial)
    /\ queries > Cardinality(InitiallyEmpty)

\* C7: whenever a solver returns true, no slot of the board is unassigned.
C7_SuccessIsFull ==
    (Done /\ proc \in Solvers /\ result.solved) =>
        \A i \in Cells(board) : board[i] # Null

\* a success on a board whose last slot, and another one, were unassigned
C7_Witness ==
    /\ Done /\ proc \in Solvers /\ result.solved
    /\ Len(initial) \in InitiallyEmpty
    /\ Cardinality(InitiallyEmpty) >= 2
    /\ \A i \in Cells(board) : board[i] # Null

InitiallyFull == \A i \in Cells(initial) : initial[i] # Null

\* C8: on a board without unassigned slots each procedure reports success
\* at once: validateMove is never called, no slot changes, no recursive call
\* is made, the solvers return true and solutionChecker reports solutionFound.
C8_TrivialBoard ==
    (InitiallyFull /\ status # "ready") =>
        /\ queries = 0
        /\ board = initial
        /\ Len(stack) <= 1
        /\ Done => /\ proc \in Solvers => result.solved
                   /\ proc = "solutionChecker" => result.solutionFound

\* solutionChecker has returned on a board that was full when it was called
C8_Witness ==
    /\ Done /\ InitiallyFull /\ proc = "solutionChecker"
    /\ result.solutionFound /\ queries = 0 /\ board = initial

\* C9: in solutionChecker the counter never exceeds 2 and, once it is 2, no
\* step queries validateMove, writes a slot or counts again: the active frames
\* only return.
C9_StopPropagates ==
    [][ /\ solutionCount' <= 2
        /\ solutionCount >= 2 =>
              /\ queries' = queries
              /\ board' = board
              /\ solutionCount' = solutionCount
              /\ Len(stack') <= Len(stack) ]_vars

\* the second solution has just been counted below two or more active
\* frames, one of which still has candidates it has not tried
C9_Witness ==
    /\ status = "running" /\ proc = "solutionChecker"
    /\ solutionCount = 2
    /\ Len(stack) >= 2
    /\ \E k \in 1..Len(stack) : stack[k].rest # {}

\* C10: with a maxValue of zero or less, the three procedures signal a fault
\* instead of running a search or returning a result.
C10_FailFast ==
    (status # "ready" /\ maxValue # <<>> /\ maxValue[1] <= 0) => status = "fault"

\* what backtrackingSolver returns for the same board, rule set and maxValue
\* (C4, with the max the code computes): whether a completion exists
Solvable == Completions(initial, ruleSet, width, max(maxValue, initial)) # {}

\* C11: randomBacktrackingSolver returns, whatever the shuffles, the boolean
\* backtrackingSolver returns on the same board, rule set and maxValue: true
\* exactly when a completion exists; a false result leaves the board as it was
\* and a true result leaves a completion of the initial board.
C11_RandomSameContract ==
    /\ (Done /\ proc \in Solvers) => (result.solved <=> Solvable)
    /\ (Done /\ proc = "randomBacktrackingSolver") =>
          IF result.solved
          THEN board \in Completions(initial, ruleSet, width, max(maxValue, initial))
          ELSE board = initial

\* the randomized solver has succeeded on a board with several completions,
\* and ends on another board than the smallest-candidate-first one
C11_Witness ==
    /\ Done /\ proc = "randomBacktrackingSolver" /\ result.solved
    /\ ruleSet = "RowRuleSet" /\ width = 2 /\ height = 2
    /\ initial = AllNull(4) /\ maxValue = <<2>>
    /\ board = <<2, 1, 2, 1>>

\* a precedes or equals b in the lexicographic order of the values of the
\* initially unassigned slots, read in board order
LexLeq(a, b) ==
    \/ \A i \in InitiallyEmpty : a[i] = b[i]
    \/ \E i \in InitiallyEmpty :
          /\ a[i] < b[i]
          /\ \A j \in InitiallyEmpty : j < i => a[j] = b[j]

\* C13: when backtrackingSolver returns true, the board is the completion
\* whose values on the initially unassigned slots are lexicographically
\* smallest (maxValue omitted or a non-zero number).
C13_LexFirst ==
    (Done /\ proc = "backtrackingSolver" /\ result.solved /\ maxValue # <<0>>) =>
        /\ board \in InitialCompletions
        /\ \A b \in InitialCompletions : LexLeq(board, b)

\* a success on a board with several completions where the smallest one is
\* found only after rejected candidates and is not the all-ones filling
C13_Witness ==
    /\ Done /\ proc = "backtrackingSolver" /\ result.solved /\ maxValue # <<0>>
    /\ Cardinality(InitialCompletions) >= 2
    /\ Cardinality(InitiallyEmpty) >= 2
    /\ \E i \in InitiallyEmpty : board[i] > 1
    /\ queries > Cardinality(InitiallyEmpty)

\* C14: with the permissive rule set and maxValue omitted, backtrackingSolver
\* on a board whose slots are all unassigned returns true and leaves the
\* value 1 in every slot, after one validateMove query per slot.
C14_PermissiveAllOnes ==
    (Done /\ proc = "backtrackingSolver" /\ ruleSet = "RuleSet"
          /\ maxValue = <<>> /\ initial = AllNull(Len(initial))) =>
        /\ result.solved
        /\ board = [i \in Cells(initial) |-> 1]
        /\ queries = Len(initial)

\* the scenario's board: 2 x 2, four unassigned slots, maxValue defaulting to 4
C14_Witness ==
    /\ Done /\ proc = "backtrackingSolver" /\ ruleSet = "RuleSet"
    /\ maxValue = <<>> /\ width = 2 /\ height = 2 /\ initial = AllNull(4)
    /\ max(maxValue, initial) = 4
    /\ result.solved /\ board = <<1, 1, 1, 1>>

NullCount(b) == Cardinality({ i \in Cells(b) : b[i] = Null })

\* C12: every call of the three procedures returns, and a solveRecursive
\* call at depth k starts with k - 1 fewer unassigned slots than the outermost
\* call: strictly fewer than the call that made it.
C12_Terminates ==
    /\ (status = "running") ~> (status = "done")
    /\ [](\A k \in 1..Len(stack) :
            stack[k].pc = "entry" =>
                /\ k = Len(stack)
                /\ NullCount(board) = NullCount(initial) - (k - 1)
                /\ NullCount(board) >= 0)

\* a call three frames deep is starting
C12_Witness ==
    /\ status = "running" /\ Len(stack) = 3 /\ Top.pc = "entry"
    /\ NullCount(board) = NullCount(initial) - 2

\* C16: the solvers decide success by the absence of an unassigned slot
\* alone, never by checkWin: a solver returns true exactly when it leaves no
\* slot unassigned, also on boards its rule set's checkWin rejects.
C16_SuccessIgnoresCheckWin ==
    (Done /\ proc \in Solvers) =>
        (result.solved <=> \A i \in Cells(board) : board[i] # Null)

\* backtrackingSolver has filled slots under the row rule, whose validateMove
\* looks at the value being placed only, and returned true on a board that
\* the rule set's checkWin rejects
C16_Witness ==
    /\ Done /\ proc = "backtrackingSolver" /\ result.solved
    /\ ruleSet = "RowRuleSet"
    /\ InitiallyEmpty # {}
    /\ queries > 0
    /\ ~ checkWin(ruleSet, board, width, height)

\* the case of C18: the randomized solver on a fully unassigned board with
\* the permissive rule set and at least two candidates
RandomOnEmptyBoard ==
    /\ proc = "randomBacktrackingSolver" /\ ruleSet = "RuleSet"
    /\ initial = AllNull(Len(initial))
    /\ max(maxValue, initial) >= 2

\* C18: on a fully unassigned board with the permissive rule set and
\* max >= 2, every frame of the randomized solver can give its slot any of the
\* values 1..max (the order is drawn anew in each frame), and every run ends
\* in success on the board so chosen: more than one final board is reachable.
C18_RandomVaries ==
    RandomOnEmptyBoard =>
        /\ (status = "running" /\ stack # <<>> /\ Top.pc = "loop") =>
              \A v \in 1..max(maxValue, initial) :
                  ENABLED (TryValue /\ board'[Top.cell] = v)
        /\ Done => /\ result.solved
                   /\ \A i \in Cells(board) : board[i] \in 1..max(maxValue, initial)

\* the randomized solver has ended on a board that is not the one the
\* ascending solver gives (all ones) and whose slots differ from each other
C18_Witness ==
    /\ Done /\ RandomOnEmptyBoard /\ result.solved
    /\ Len(board) >= 2
    /\ board[1] = 2 /\ board[2] = 1

OnBoard(x, y) == 0 <= x /\ x < width /\ 0 <= y /\ y < height

\* C19: a Board built with RectangularTopology holds width * height cells,
\* one for each coordinate of the rectangle, in row-major order and all
\* unassigned; getCell returns the cell of the coordinates asked for when
\* they are on the board and undefined otherwise.
C19_RectangularBoard ==
    /\ Len(cells) = width * height
    /\ \A k \in 1..Len(cells) :
          cells[k] = [x |-> (k - 1) % width, y |-> (k - 1) \div width, value |-> Null]
    /\ \A x \in 0..(width - 1), y \in 0..(height - 1) :
          Cardinality({ k \in 1..Len(cells) : cells[k].x = x /\ cells[k].y = y }) = 1
    /\ \A k \in 1..Len(cells) : OnBoard(cells[k].x, cells[k].y)
    /\ \A i \in 1..Len(board) : board[i] = Null
    /\ lookup.op = "getCell" =>
          IF OnBoard(lookup.x, lookup.y)
          THEN /\ lookup.result = <<cells[lookup.y * width + lookup.x + 1]>>
               /\ lookup.result[1].x = lookup.x
               /\ lookup.result[1].y = lookup.y
          ELSE lookup.result = <<>>

\* getCell(2, 1) on a board 3 wide and 2 high has returned its last cell
C19_Witness ==
    /\ width = 3 /\ height = 2 /\ Len(cells) = 6
    /\ lookup.op = "getCell" /\ lookup.x = 2 /\ lookup.y = 1
    /\ lookup.result = <<cells[6]>>

Abs(n) == IF n < 0 THEN 0 - n ELSE n

\* the cells of the board orthogonally adjacent to the coordinates (x, y)
Adjacent(x, y) ==
    { cells[k] : k \in { j \in 1..Len(cells) :
                           Abs(cells[j].x - x) + Abs(cells[j].y - y) = 1 } }

\* C20: getNeighbors returns exactly the cells of the board orthogonally
\* adjacent to the given cell, each once and never the cell itself: 4 for an
\* interior cell, fewer for a cell on an edge or in a corner.
C20_OrthogonalNeighbors ==
    lookup.op = "getNeighbors" =>
        LET r == lookup.result
            x == lookup.x
            y == lookup.y
            interior == 0 < x /\ x < width - 1 /\ 0 < y /\ y < height - 1
        IN /\ { r[i] : i \in 1..Len(r) } = Adjacent(x, y)
           /\ \A i, j \in 1..Len(r) : i # j => r[i] # r[j]
           /\ \A i \in 1..Len(r) : ~ (r[i].x = x /\ r[i].y = y)
           /\ IF interior THEN Len(r) = 4 ELSE Len(r) < 4

\* the neighbours of the centre cell of a 3 x 3 board: up, right, down, left
C20_Witness ==
    /\ width = 3 /\ height = 3
    /\ lookup.op = "getNeighbors" /\ lookup.x = 1 /\ lookup.y = 1
    /\ lookup.result = <<Cell(1, 0), Cell(2, 1), Cell(1, 2), Cell(0, 1)>>

\* the board of the integration test: 1, 2, 3 in the first row of a 3 x 3 board
PresetBoard == <<1, 2, 3, Null, Null, Null, Null, Null, Null>>

RowScenario ==
    /\ Done
    /\ proc = "backtrackingSolver"
    /\ ruleSet = "RowRuleSet"
    /\ maxValue = <<>>
    /\ initial = PresetBoard

\* C15: with the row-uniqueness rule set and maxValue omitted,
\* backtrackingSolver on the 3 x 3 board whose first three cells are 1, 2, 3
\* and whose other cells are unassigned returns true, and the final board has
\* every cell assigned and no value twice in a row: checkWin returns true.
C15_RowScenarioSolved ==
    RowScenario =>
        /\ result.solved
        /\ \A i \in Cells(board) : board[i] # Null
        /\ \A i, j \in Cells(board) :
              (i # j /\ CellY(i, width) = CellY(j, width)) => board[i] # board[j]
        /\ checkWin("RowRuleSet", board, width, height)

\* the call of the integration test has returned and has filled the six
\* cells that were unassigned
C15_Witness ==
    /\ RowScenario
    /\ result.solved
    /\ \A i \in InitiallyEmpty : written[i] # <<>> /\ board[i] # Null

\* C22: at every point of a search by any of the three procedures the number
\* of active recursion frames is at most the number of slots that were
\* unassigned when the call started, plus one; hence at most the number of
\* slots of the board plus one.
C22_DepthBounded ==
    /\ Len(stack) <= Cardinality(InitiallyEmpty) + 1
    /\ Len(stack) <= Len(board) + 1

\* the deepest recursion: one frame for each of three unassigned slots and
\* the frame that finds the board complete
C22_Witness ==
    /\ status = "running"
    /\ Cardinality(InitiallyEmpty) = 3
    /\ Len(stack) = 4
    /\ Top.pc = "entry"

\* C23: a slot that holds a value when one of the three procedures is called
\* is never written by the search: it holds the same value before and after
\* every step of the call, whatever the result.
C23_PresetSlotsUntouched ==
    [][\A i \in Cells(initial) :
          initial[i] # Null =>
              /\ board[i] = initial[i]
              /\ board'[i] = initial[i]
              /\ written'[i] = <<>>]_vars

\* a search that has returned after writing to the slot in front of a
\* pre-set one and to the slot behind it
C23_Witness ==
    /\ Done
    /\ Len(initial) = 3
    /\ initial[1] = Null /\ initial[2] # Null /\ initial[3] = Null
    /\ board[1] # Null /\ board[2] = initial[2] /\ board[3] # Null

\* the initially unassigned slots that hold a value now
AssignedBySearch == { i \in InitiallyEmpty : board[i] # Null }

\* they are the first of the initially unassigned slots, in board order
AssignedIsPrefix ==
    \A i \in AssignedBySearch : \A j \in InitiallyEmpty : j < i => j \in AssignedBySearch

\* each of them is the slot selected by exactly one active frame
AssignedHaveFrames ==
    \A i \in AssignedBySearch :
        Cardinality({ k \in 1..Len(stack) : stack[k].cell = i }) = 1

\* no slot behind the first unassigned slot has been assigned by the search
NothingBehindFirstEmpty ==
    \A i \in Cells(board) :
        (emptyCell(board) # NoCell /\ i > emptyCell(board)) => board[i] = initial[i]

\* C25 (as stated): at every point of a search the initially unassigned
\* slots that hold a value form a prefix of the initially unassigned slots in
\* board order, each of them is the slot selected by exactly one active
\* recursion frame, and no slot after the first unassigned slot has been
\* assigned by the search.
C25_PrefixWithFrames ==
    (status = "running" /\ stack # <<>>) =>
        /\ AssignedIsPrefix
        /\ AssignedHaveFrames
        /\ NothingBehindFirstEmpty

\* C25 (amended): the prefix and the slots behind the first unassigned one
\* are as stated at every point; each assigned slot is the slot of exactly
\* one active frame until a solveRecursive call returns true, and from then
\* on the board is complete and the frames that remain select different
\* slots, the returned ones having left their slots assigned.
C25_PrefixFramesUntilTrue ==
    status = "running" =>
        /\ AssignedIsPrefix
        /\ NothingBehindFirstEmpty
        /\ IF ret = <<TRUE>>
           THEN /\ AssignedBySearch = InitiallyEmpty
                /\ \A k \in 1..Len(stack) :
                      /\ stack[k].cell \in AssignedBySearch
                      /\ \A l \in 1..Len(stack) : stack[l].cell = stack[k].cell => l = k
           ELSE AssignedHaveFrames

\* a search in progress that has filled the slots in front of and behind a
\* pre-set slot and is about to look for the next unassigned slot
C25_Witness ==
    /\ status = "running"
    /\ ret = <<>>
    /\ Len(initial) = 4
    /\ InitiallyEmpty = {1, 3, 4}
    /\ AssignedBySearch = {1, 3}
    /\ Top.pc = "entry"

\* C26: every validateMove query made by any of the three procedures passes
\* a slot that is unassigned at the moment of the query and is the first
\* unassigned slot of the board in board order; validateMove is never
\* queried for a slot that holds a value.
C26_QueriesFirstEmpty ==
    [][queries' # queries =>
          /\ stack # <<>>
          /\ Top.cell \in Cells(board)
          /\ board[Top.cell] = Null
          /\ Top.cell = emptyCell(board)]_vars

\* a frame that has queried validateMove for the third slot, the first one
\* unassigned behind a slot filled by the search and a pre-set slot, and has
\* candidates left to query
C26_Witness ==
    /\ status = "running"
    /\ stack # <<>>
    /\ Top.pc = "loop"
    /\ Top.cell = 3
    /\ initial[1] = Null /\ initial[2] # Null
    /\ queries >= 2
    /\ Top.rest # {}
    /\ Top.rest # cellValues(max(maxValue, board))

\* C24: for the same initial board, rule set and maxValue, solutionChecker's
\* solutionFound equals the boolean returned by backtrackingSolver, and
\* multipleSolutions true implies solutionFound true. The call that was made
\* is compared with the other procedure on the board the call started from.
C24_FoundIffSolved ==
    (Done /\ proc \in {"backtrackingSolver", "solutionChecker"}) =>
        LET solved == backtrackingSolverReturns(initial, ruleSet, width, maxValue)
            checked == solutionCheckerReturns(initial, ruleSet, width, maxValue)
        IN /\ checked.solutionFound = solved
           /\ checked.multipleSolutions => checked.solutionFound
           /\ proc = "backtrackingSolver" => result.solved = solved
           /\ proc = "solutionChecker" =>
                 /\ result.solutionFound = checked.solutionFound
                 /\ result.multipleSolutions = checked.multipleSolutions
                 /\ result.solutionFound = solved
                 /\ result.multipleSolutions => result.solutionFound

\* solutionChecker has found the only solution of a board with two
\* unassigned slots, which backtrackingSolver solves
C24_Witness ==
    /\ Done
    /\ proc = "solutionChecker"
    /\ Cardinality(InitiallyEmpty) = 2
    /\ result.solutionFound
    /\ ~ result.multipleSolutions
    /\ backtrackingSolverReturns(initial, ruleSet, width, maxValue)

\* the input board of carveBoard with the cell at 0-based index i cleared
WithCellCleared(i) == [board EXCEPT ![i + 1] = Null]

\* the elements of carveBoard's voids
Voids == { carve.voids[k] : k \in 1..Len(carve.voids) }

\* C21: carveBoard calls solutionChecker once per cell index i on a board
\* that equals the input board with only cell i cleared, and it records i in
\* voids exactly when that board does not have multiple solutions; the
\* input board is left unchanged.
C21_CarveChecksEachRemoval ==
    (carve.pc # "idle" /\ carve.i > 0) =>
        /\ carve.calls = carve.i
        /\ carve.checked = WithCellCleared(carve.i - 1)
        /\ \A i \in 0..(carve.i - 1) :
              i \in Voids <=>
                  ~ solutionCheckerReturns(WithCellCleared(i), "SudokuRuleSet", width,
                                           <<SudokuMax>>).multipleSolutions
        /\ board = initial

====
